---- MODULE Spec2Model ----
(***************************************************************************)
(* Draft review and promotion in ysjaya/aiubot.                            *)
(*                                                                         *)
(* State: the attachment and draftversion tables (app/db/models.py), the   *)
(* wall clock read by datetime.utcnow(), the last HTTP response, and the   *)
(* promote requests that are in flight.  Operations: the route handlers of *)
(* app/api/draft_routes.py, app/api/routers.py and                         *)
(* app/api/github_routes.py, and promote_draft_to_attachment of            *)
(* app/services/cerebras_chain.py.                                         *)
(*                                                                         *)
(* Spec  runs the handlers one at a time, each as one atomic step.         *)
(* SpecC runs promote as two steps per request (load and check the draft,  *)
(* then call promote_draft_to_attachment) so that two promote requests     *)
(* served by different workers interleave.                                 *)
(***************************************************************************)
EXTENDS Integers, Sequences, FiniteSets

\* ---------------------------------------------------------------- bounds
MaxAttachments == 2     \* attachment ids ever allocated
MaxDrafts == 2          \* draft ids ever allocated
MaxTime == 3            \* last reading of the clock

Conversations == {1}
Filenames == {"a.py", "b.py"}
\* file texts, as the parts the completeness checks tell apart: "code" is a
\* stretch of whole code, "..." the ellipsis truncation marker
Contents == {<<"code">>, <<"code", "...">>}
\* uploaded and imported files are whole files
UploadContents == {c \in Contents : \A i \in 1..Len(c) : c[i] # "..."}
Requests == {1, 2}

\* ---------------------------------------------------------------- values
None == 0               \* Python None / SQL NULL for ids and timestamps
NoHash == <<>>          \* content_hash left NULL

ORIGINAL == "original"
MODIFIED == "modified"
LATEST == "latest"
FileStatus == {ORIGINAL, MODIFIED, LATEST}

PENDING == "pending"
APPROVED == "approved"
REJECTED == "rejected"
PROMOTED == "promoted"
DraftStatus == {PENDING, APPROVED, REJECTED, PROMOTED}

\* hashlib.sha256(content.encode('utf-8')).hexdigest(): injective on Contents
sha256(content) == <<"sha256">> \o content

VARIABLES attachments, nextAttachmentId, drafts, nextDraftId, now, resp, req,
          vinput, validation, chat, active_clients,
          tasks, active_tasks, completed_tasks, failed_tasks, jobs,
          search_cache, utcnow, search_result, reply

\* the content handed to the validator and the verdicts on it
validatorVars == <<vinput, validation>>

\* the chat request being answered and the clients of AIClientManager
chatVars == <<chat, active_clients>>

\* the Task objects, the tables of TaskManager and its background processings
managerVars == <<tasks, active_tasks, completed_tasks, failed_tasks, jobs>>

\* DeepWebSearch.search_cache, the clock, and what deep_search returned last
searchVars == <<search_cache, utcnow, search_result>>

\* the AI reply process_and_reply is sending
replyVars == <<reply>>

\* the state of the services behind the handlers
serviceVars == <<managerVars, searchVars, replyVars>>

vars == <<attachments, nextAttachmentId, drafts, nextDraftId, now, resp, req,
          vinput, validation, chat, active_clients,
          tasks, active_tasks, completed_tasks, failed_tasks, jobs,
          search_cache, utcnow, search_result, reply>>

\* ---------------------------------------------------------------- helpers
Max(S) == IF S = {} THEN 0 ELSE CHOOSE m \in S : \A x \in S : x <= m

\* the rows of the version chain (conversation_id, filename)
Chain(A, conv, fname) ==
    {a \in DOMAIN A : A[a].conversation_id = conv /\ A[a].filename = fname}

LatestOf(A, conv, fname) ==
    {a \in Chain(A, conv, fname) : A[a].status = LATEST}

\* f with the row id |-> row added (session.add of a new object + commit)
Insert(f, id, row) == [x \in DOMAIN f \cup {id} |-> IF x = id THEN row ELSE f[x]]

\* the HTTP response of the request served last
Response(op, d, code, detail) ==
    [op |-> op, draft |-> d, code |-> code, detail |-> detail]

IdleRequest == [pc |-> "idle", draft |-> None, overtaken |-> FALSE]

\* the tables as init_db leaves them, and no request served yet
InitStore ==
    /\ attachments = <<>>
    /\ nextAttachmentId = 1
    /\ drafts = <<>>
    /\ nextDraftId = 1
    /\ now = 1
    /\ resp = Response("none", None, 0, "")
    /\ req = [r \in Requests |-> IdleRequest]

\* nothing handed to the validator
NoInput == [content |-> <<>>, filename |-> <<>>]

\* no chat request yet; both API keys configured
IdleChat == [pc |-> "idle"]

InitChat ==
    /\ chat = IdleChat
    /\ active_clients = {"cerebras", "nvidia"}

\* Task.status as the dataclass sets it
TASK_PENDING == "pending"

\* the tasks a caller holds, by Task.id
TaskIds == {"t1", "t2"}

\* TaskManager.__init__, and the tasks not yet handed to it
InitManager ==
    /\ tasks = [t \in TaskIds |-> [status |-> TASK_PENDING, retry_count |-> 0,
                                   type |-> "general"]]
    /\ active_tasks = {}
    /\ completed_tasks = {}
    /\ failed_tasks = {}
    /\ jobs = <<>>

\* DeepWebSearch.__init__, no search made yet
InitSearch ==
    /\ search_cache = <<>>
    /\ utcnow = 0
    /\ search_result = [called |-> FALSE]

\* no reply to send
NoReply == [text |-> <<>>, sent |-> FALSE, chunks |-> <<>>]

InitServices ==
    /\ InitManager
    /\ InitSearch
    /\ reply = NoReply

Init ==
    /\ InitStore
    /\ vinput = NoInput
    /\ validation = [done |-> FALSE]
    /\ InitChat
    /\ InitServices

\* ------------------------------------------------- uploads and imports
\* OriginalRow with the new row marked LATEST
OriginalRow_latest(conv, fname, content) ==
    [conversation_id |-> conv, filename |-> fname, content |-> content,
     content_hash |-> NoHash, status |-> LATEST, version |-> 1,
     parent_file_id |-> None]

\* models.Attachment(...) as attach_file and the GitHub import build it:
\* status ORIGINAL, version 1; content_hash and parent_file_id keep their
\* column defaults (None)
OriginalRow(conv, fname, content) ==
    [conversation_id |-> conv, filename |-> fname, content |-> content,
     content_hash |-> NoHash, status |-> ORIGINAL, version |-> 1,
     parent_file_id |-> None]

NoRequestStep == UNCHANGED req

\* POST /conversation/{conv_id}/attach with a small UTF-8 text file, for a
\* project and a conversation that exist
attach_file(conv, fname, content) ==
    /\ UNCHANGED now
    /\ NoRequestStep
    /\ UNCHANGED <<drafts, nextDraftId>>
    /\ nextAttachmentId <= MaxAttachments
    /\ attachments' = Insert(attachments, nextAttachmentId,
                             OriginalRow(conv, fname, content))
    /\ nextAttachmentId' = nextAttachmentId + 1
    /\ resp' = Response("attach", None, 200, "")

\* the rows one import request adds: one per imported file, ids in order
RECURSIVE ImportRows(_, _, _, _)
ImportRows(A, id, conv, files) ==
    IF files = <<>> THEN A
    ELSE ImportRows(Insert(A, id, OriginalRow(conv, Head(files).filename,
                                              Head(files).content)),
                    id + 1, conv, Tail(files))

ImportFile == [filename : Filenames, content : UploadContents]

\* the batches of at most n files
ImportBatches(n) == UNION {[1..k -> ImportFile] : k \in 0..n}

\* POST /import for a project and a conversation that exist: files is what
\* github_import.import_selected_files returned
import_files_from_github(conv, files) ==
    /\ UNCHANGED now
    /\ NoRequestStep
    /\ UNCHANGED <<drafts, nextDraftId>>
    /\ IF files = <<>>
       THEN \* HTTPException(400) raised inside the try, caught by except Exception
            /\ resp' = Response("import", None, 500, "Import failed")
            /\ UNCHANGED <<attachments, nextAttachmentId>>
       ELSE /\ nextAttachmentId + Len(files) - 1 <= MaxAttachments
            /\ attachments' = ImportRows(attachments, nextAttachmentId, conv, files)
            /\ nextAttachmentId' = nextAttachmentId + Len(files)
            /\ resp' = Response("import", None, 200, "")

\* ------------------------------------------------------ the Draft Store
\* CodeCompletenessValidator.validate_completeness, is_complete: a truncation
\* marker in the content is an issue, and a content with an issue is not complete
validate_completeness(content) == \A i \in 1..Len(content) : content[i] # "..."

\* the version numbers of the drafts of (conversation_id, filename)
DraftVersions(D, conv, fname) ==
    {D[d].version_number : d \in {x \in DOMAIN D : D[x].conversation_id = conv
                                                   /\ D[x].filename = fname}}

\* CreateDraft which stores the row without counting its content
CreateDraft_without_length(conv, fname, content) ==
    /\ UNCHANGED now
    /\ NoRequestStep
    /\ nextDraftId <= MaxDrafts
    /\ drafts' = Insert(drafts, nextDraftId,
                    [conversation_id |-> conv, filename |-> fname,
                     content |-> content, content_hash |-> sha256(content),
                     content_length |-> 0,
                     version_number |-> Max(DraftVersions(drafts, conv, fname)) + 1,
                     status |-> IF validate_completeness(content)
                                THEN APPROVED ELSE PENDING,
                     is_complete |-> validate_completeness(content),
                     reviewed_at |-> None, promoted_at |-> None])
    /\ nextDraftId' = nextDraftId + 1
    /\ resp' = Response("create", nextDraftId, 200, "")
    /\ UNCHANGED <<attachments, nextAttachmentId>>

\* CreateDraft which leaves the status at the column's default
CreateDraft_pending(conv, fname, content) ==
    /\ UNCHANGED now
    /\ NoRequestStep
    /\ nextDraftId <= MaxDrafts
    /\ drafts' = Insert(drafts, nextDraftId,
                    [conversation_id |-> conv, filename |-> fname,
                     content |-> content, content_hash |-> sha256(content),
                     content_length |-> Len(content),
                     version_number |-> Max(DraftVersions(drafts, conv, fname)) + 1,
                     status |-> PENDING,
                     is_complete |-> validate_completeness(content),
                     reviewed_at |-> None, promoted_at |-> None])
    /\ nextDraftId' = nextDraftId + 1
    /\ resp' = Response("create", nextDraftId, 200, "")
    /\ UNCHANGED <<attachments, nextAttachmentId>>

\* createDraft: the row a generation attempt leaves, with the validator's
\* verdict on its content
CreateDraft(conv, fname, content) ==
    /\ UNCHANGED now
    /\ NoRequestStep
    /\ nextDraftId <= MaxDrafts
    /\ drafts' = Insert(drafts, nextDraftId,
                    [conversation_id |-> conv, filename |-> fname,
                     content |-> content, content_hash |-> sha256(content),
                     content_length |-> Len(content),
                     version_number |-> Max(DraftVersions(drafts, conv, fname)) + 1,
                     status |-> IF validate_completeness(content)
                                THEN APPROVED ELSE PENDING,
                     is_complete |-> validate_completeness(content),
                     reviewed_at |-> None, promoted_at |-> None])
    /\ nextDraftId' = nextDraftId + 1
    /\ resp' = Response("create", nextDraftId, 200, "")
    /\ UNCHANGED <<attachments, nextAttachmentId>>

\* ids a request may name: every id ever allocated and one never allocated
DraftIds == 1..(MaxDrafts + 1)

\* approve_draft without the check of is_complete
approve_without_completeness(d) ==
    /\ NoRequestStep
    /\ UNCHANGED <<attachments, nextAttachmentId, nextDraftId>>
    /\ IF d \notin DOMAIN drafts
       THEN /\ resp' = Response("approve", d, 404, "Draft not found")
            /\ UNCHANGED <<drafts, now>>
       ELSE /\ now < MaxTime
            /\ drafts' = [drafts EXCEPT ![d].status = APPROVED, ![d].reviewed_at = now]
            /\ now' = now + 1
            /\ resp' = Response("approve", d, 200, "")

\* POST /draft/{draft_id}/approve
approve_draft(d) ==
    /\ NoRequestStep
    /\ UNCHANGED <<attachments, nextAttachmentId, nextDraftId>>
    /\ IF d \notin DOMAIN drafts
       THEN /\ resp' = Response("approve", d, 404, "Draft not found")
            /\ UNCHANGED <<drafts, now>>
       ELSE IF ~drafts[d].is_complete
       THEN /\ resp' = Response("approve", d, 400, "Cannot approve incomplete draft")
            /\ UNCHANGED <<drafts, now>>
       ELSE /\ now < MaxTime
            /\ drafts' = [drafts EXCEPT ![d].status = APPROVED, ![d].reviewed_at = now]
            /\ now' = now + 1
            /\ resp' = Response("approve", d, 200, "")

\* POST /draft/{draft_id}/reject
reject_draft(d) ==
    /\ NoRequestStep
    /\ UNCHANGED <<attachments, nextAttachmentId, nextDraftId>>
    /\ IF d \notin DOMAIN drafts
       THEN /\ resp' = Response("reject", d, 404, "Draft not found")
            /\ UNCHANGED <<drafts, now>>
       ELSE /\ now < MaxTime
            /\ drafts' = [drafts EXCEPT ![d].status = REJECTED, ![d].reviewed_at = now]
            /\ now' = now + 1
            /\ resp' = Response("reject", d, 200, "")

\* ------------------------------------------------------------ promotion
\* the parameters promote_draft_to_attachment declares (all required) and
\* the positional arguments promote_draft passes in its call
PromoteParameters == <<"draft_id", "conversation_id", "session">>
PromoteArguments == <<"draft", "session">>

Outcome(raised, attachment, A, D) ==
    [raised |-> raised, attachment |-> attachment, attachments |-> A, drafts |-> D]

\* the LATEST row a promotion of the draft row makes
PromotedRow(draft) ==
    [conversation_id |-> draft.conversation_id, filename |-> draft.filename,
     content |-> draft.content, content_hash |-> NoHash, status |-> LATEST,
     version |-> 1, parent_file_id |-> None]

\* promote_draft_to_attachment whose call binds and which adds the new LATEST
\* row without retiring the row that was LATEST
promote_insert_without_retire(args, D, A, d, newId) ==
    Outcome("", newId, Insert(A, newId, PromotedRow(D[d])), D)

\* promote_draft_to_attachment which fails after its insert reached the
\* database, without rolling it back
promote_fail_after_insert(args, D, A, d, newId) ==
    Outcome("", None, Insert(A, newId, PromotedRow(D[d])), D)

\* promote_draft_to_attachment whose call binds and which, besides adding the
\* new LATEST row, rewrites the status of the chain's ORIGINAL rows
promote_retire_original(args, D, A, d, newId) ==
    Outcome("", newId,
            Insert([a \in DOMAIN A |->
                      IF /\ a \in Chain(A, D[d].conversation_id, D[d].filename)
                         /\ A[a].status = ORIGINAL
                      THEN [A[a] EXCEPT !.status = MODIFIED]
                      ELSE A[a]],
                   newId, PromotedRow(D[d])),
            D)

\* One call of promote_draft_to_attachment with the arguments args, on the
\* tables D and A, for the draft d, a new row getting the id newId.
\* A call whose arguments do not fill the parameters raises TypeError before
\* the body runs.  The body's first statement reads models.Draft, a name
\* app/db/models.py does not define: the AttributeError is caught by the
\* function's own handler, which rolls the session back and returns None.
promote_draft_to_attachment(args, D, A, d, newId) ==
    IF Len(args) # Len(PromoteParameters)
    THEN Outcome("TypeError", None, A, D)
    ELSE Outcome("", None, A, D)

\* promote_precondition without the check of the status
promote_precondition_no_status(draft) ==
    IF ~draft.is_complete THEN "Cannot promote incomplete draft" ELSE ""

\* the checks of promote_draft on the loaded draft: the detail of the 400 it
\* raises, or "" when the draft passes
promote_precondition(draft) ==
    IF draft.status # APPROVED THEN "Draft must be approved before promotion"
    ELSE IF ~draft.is_complete THEN "Cannot promote incomplete draft"
    ELSE ""

\* what promote_draft answers after the call returned or raised
promote_response(d, out) ==
    IF out.raised # "" THEN Response("promote", d, 500, out.raised)
    ELSE IF out.attachment = None
    THEN Response("promote", d, 500, "Failed to promote draft")
    ELSE Response("promote", d, 200, "")

\* the tables after the call, as committed
promote_commit(out) ==
    /\ attachments' = out.attachments
    /\ drafts' = out.drafts
    /\ nextAttachmentId' =
           IF out.attachment = None THEN nextAttachmentId ELSE nextAttachmentId + 1
    /\ UNCHANGED nextDraftId

\* POST /draft/{draft_id}/promote, served start to end
promote_draft(d) ==
    /\ UNCHANGED now
    /\ NoRequestStep
    /\ IF d \notin DOMAIN drafts
       THEN /\ resp' = Response("promote", d, 404, "Draft not found")
            /\ UNCHANGED <<attachments, nextAttachmentId, drafts, nextDraftId>>
       ELSE IF promote_precondition(drafts[d]) # ""
       THEN /\ resp' = Response("promote", d, 400, promote_precondition(drafts[d]))
            /\ UNCHANGED <<attachments, nextAttachmentId, drafts, nextDraftId>>
       ELSE LET out == promote_draft_to_attachment(PromoteArguments, drafts,
                                                   attachments, d, nextAttachmentId)
            IN  /\ promote_commit(out)
                /\ resp' = promote_response(d, out)

\* the drafts d and e are for the same version chain
SameChain(D, d, e) ==
    /\ D[d].conversation_id = D[e].conversation_id
    /\ D[d].filename = D[e].filename

\* The same handler served by worker r in two steps.  First step:
\* session.get and the checks on the object it loaded.
promote_load(r, d) ==
    /\ req[r].pc = "idle"
    /\ UNCHANGED now
    /\ UNCHANGED <<attachments, nextAttachmentId, drafts, nextDraftId>>
    /\ IF d \notin DOMAIN drafts
       THEN /\ resp' = Response("promote", d, 404, "Draft not found")
            /\ UNCHANGED req
       ELSE IF promote_precondition(drafts[d]) # ""
       THEN /\ resp' = Response("promote", d, 400, promote_precondition(drafts[d]))
            /\ UNCHANGED req
       ELSE /\ req' = [req EXCEPT ![r] = [pc |-> "call", draft |-> d, overtaken |-> FALSE]]
            /\ UNCHANGED resp

\* Second step: the call of promote_draft_to_attachment and the response.
\* overtaken records, for a request still between its two steps, that another
\* request finished its call on the same chain meanwhile.
promote_call(r) ==
    /\ req[r].pc = "call"
    /\ UNCHANGED now
    /\ LET d == req[r].draft
           out == promote_draft_to_attachment(PromoteArguments, drafts,
                                              attachments, d, nextAttachmentId)
       IN  /\ promote_commit(out)
           /\ resp' = promote_response(d, out)
    /\ req' = [q \in Requests |->
                 IF q = r THEN IdleRequest
                 ELSE IF req[q].pc = "call" /\ SameChain(drafts, req[q].draft, req[r].draft)
                 THEN [req[q] EXCEPT !.overtaken = TRUE]
                 ELSE req[q]]

\* ------------------------------------------------- text, as Python str
\* A str is the sequence of its characters.
UpperCase == <<"A", "B", "C", "D", "E", "F", "G", "H", "I", "J", "K", "L", "M", "N", "O", "P", "Q", "R", "S", "T", "U", "V", "W", "X", "Y", "Z">>
LowerCase == <<"a", "b", "c", "d", "e", "f", "g", "h", "i", "j", "k", "l", "m", "n", "o", "p", "q", "r", "s", "t", "u", "v", "w", "x", "y", "z">>

\* str.lower(), one character
LowerChar(c) ==
    IF \E i \in 1..Len(UpperCase) : UpperCase[i] = c
    THEN LowerCase[CHOOSE i \in 1..Len(UpperCase) : UpperCase[i] = c]
    ELSE c

\* str.lower()
lower(s) == [i \in 1..Len(s) |-> LowerChar(s[i])]

\* the characters the regular expression classes \s and \w match
Whitespace == {" ", "\n", "\t"}
WordChars ==
    {UpperCase[i] : i \in 1..Len(UpperCase)} \cup {LowerCase[i] : i \in 1..Len(LowerCase)}
       \cup {"0", "1", "2", "3", "4", "5", "6", "7", "8", "9", "_"}

\* m occurs in s at position i
MatchAt(s, i, m) ==
    /\ i >= 1
    /\ i + Len(m) - 1 <= Len(s)
    /\ \A k \in 1..Len(m) : s[i + k - 1] = m[k]

\* m in s
Contains(s, m) == \E i \in 1..(Len(s) - Len(m) + 1) : MatchAt(s, i, m)

\* s.endswith(m)
EndsWith(s, m) == MatchAt(s, Len(s) - Len(m) + 1, m)

\* the least member of a set of positions
First(S) == CHOOSE a \in S : \A x \in S : a <= x

\* s.strip()
strip(s) ==
    LET kept == {i \in 1..Len(s) : s[i] \notin Whitespace}
    IN  IF kept = {} THEN <<>>
        ELSE SubSeq(s, First(kept), CHOOSE b \in kept : \A x \in kept : x <= b)

\* s.split('\n')
RECURSIVE split(_)
split(s) ==
    IF \A i \in 1..Len(s) : s[i] # "\n" THEN <<s>>
    ELSE LET n == First({i \in 1..Len(s) : s[i] = "\n"})
         IN  <<SubSeq(s, 1, n - 1)>> \o split(SubSeq(s, n + 1, Len(s)))

\* '\n'.join(lines)
RECURSIVE join(_)
join(lines) ==
    IF lines = <<>> THEN <<>>
    ELSE IF Len(lines) = 1 THEN lines[1]
    ELSE lines[1] \o <<"\n">> \o join(Tail(lines))

\* lines[-n:]
LastLines(lines, n) ==
    IF Len(lines) <= n THEN lines ELSE SubSeq(lines, Len(lines) - n + 1, Len(lines))

\* the first position at or after i whose character is not in the class
\* (past the end when there is none): the end of a greedy run
SkipClass(s, i, class) ==
    LET stops == {k \in i..Len(s) : s[k] \notin class}
    IN  IF i > Len(s) THEN i
        ELSE IF stops = {} THEN Len(s) + 1
        ELSE First(stops)

\* the first position at or after i where m occurs, 0 when there is none
Find(s, i, m) ==
    LET hits == {k \in i..(Len(s) - Len(m) + 1) : MatchAt(s, k, m)}
    IN  IF hits = {} THEN 0 ELSE First(hits)

\* re.sub(open .*? close, '', s) with DOTALL, and re.sub(q [^q]* q, '', s)
\* for a one-character q: every leftmost, shortest delimited stretch is removed
RECURSIVE RemoveDelimited(_, _, _)
RemoveDelimited(s, open, close) ==
    LET a == Find(s, 1, open)
        b == IF a = 0 THEN 0 ELSE Find(s, a + Len(open), close)
    IN  IF b = 0 THEN s
        ELSE SubSeq(s, 1, a - 1)
                \o RemoveDelimited(SubSeq(s, b + Len(close), Len(s)), open, close)

\* re.sub(start .*$, '', s) with MULTILINE: from start to the end of its line
RECURSIVE RemoveToEol(_, _)
RemoveToEol(s, start) ==
    LET a == Find(s, 1, start)
        e == IF a = 0 THEN 0 ELSE SkipClass(s, a, {s[i] : i \in 1..Len(s)} \ {"\n"})
    IN  IF a = 0 THEN s
        ELSE SubSeq(s, 1, a - 1) \o RemoveToEol(SubSeq(s, e, Len(s)), start)

\* --------------------------------------------- the Completeness Validator
\* CodeCompletenessValidator.TRUNCATION_MARKERS with '...' left out
TRUNCATION_MARKERS_without_dots ==
    <<<<"#", " ", ".", ".", ".", " ", "r", "e", "s", "t", " ", "o", "f", " ", "c", "o", "d", "e">>,
      <<"#", " ", ".", ".", ".", " ", "k", "o", "d", "e", " ", "l", "a", "i", "n", "n", "y", "a">>,
      <<"#", " ", "r", "e", "s", "t", " ", "o", "f", " ", "t", "h", "e", " ", "c", "o", "d", "e">>,
      <<"/", "/", " ", ".", ".", ".", " ", "r", "e", "s", "t", " ", "o", "f", " ", "c", "o", "d", "e">>,
      <<"/", "/", " ", ".", ".", ".", " ", "k", "o", "d", "e", " ", "l", "a", "i", "n", "n", "y", "a">>,
      <<"/", "*", " ", ".", ".", ".", " ", "*", "/">>,
      <<"<", "!", "-", "-", " ", ".", ".", ".", " ", "-", "-", ">">>,
      <<"[", "t", "r", "u", "n", "c", "a", "t", "e", "d", "]">>,
      <<"[", "c", "o", "n", "t", "i", "n", "u", "e", "d", "]">>,
      <<"[", "T", "R", "U", "N", "C", "A", "T", "E", "D", "]">>,
      <<"[", "C", "O", "N", "T", "I", "N", "U", "E", "D", "]">>,
      <<"#", " ", "d", "a", "n", " ", "s", "e", "t", "e", "r", "u", "s", "n", "y", "a">>,
      <<"/", "/", " ", "d", "a", "n", " ", "s", "e", "t", "e", "r", "u", "s", "n", "y", "a">>,
      <<"#", " ", ".", ".", ".", " ", "(", "r", "e", "s", "t", " ", "o", "m", "i", "t", "t", "e", "d", ")">>,
      <<"/", "/", " ", ".", ".", ".", " ", "(", "r", "e", "s", "t", " ", "o", "m", "i", "t", "t", "e", "d", ")">>>>

TRUNCATION_MARKERS ==
    <<<<".", ".", ".">>,
      <<"#", " ", ".", ".", ".", " ", "r", "e", "s", "t", " ", "o", "f", " ", "c", "o", "d", "e">>,
      <<"#", " ", ".", ".", ".", " ", "k", "o", "d", "e", " ", "l", "a", "i", "n", "n", "y", "a">>,
      <<"#", " ", "r", "e", "s", "t", " ", "o", "f", " ", "t", "h", "e", " ", "c", "o", "d", "e">>,
      <<"/", "/", " ", ".", ".", ".", " ", "r", "e", "s", "t", " ", "o", "f", " ", "c", "o", "d", "e">>,
      <<"/", "/", " ", ".", ".", ".", " ", "k", "o", "d", "e", " ", "l", "a", "i", "n", "n", "y", "a">>,
      <<"/", "*", " ", ".", ".", ".", " ", "*", "/">>,
      <<"<", "!", "-", "-", " ", ".", ".", ".", " ", "-", "-", ">">>,
      <<"[", "t", "r", "u", "n", "c", "a", "t", "e", "d", "]">>,
      <<"[", "c", "o", "n", "t", "i", "n", "u", "e", "d", "]">>,
      <<"[", "T", "R", "U", "N", "C", "A", "T", "E", "D", "]">>,
      <<"[", "C", "O", "N", "T", "I", "N", "U", "E", "D", "]">>,
      <<"#", " ", "d", "a", "n", " ", "s", "e", "t", "e", "r", "u", "s", "n", "y", "a">>,
      <<"/", "/", " ", "d", "a", "n", " ", "s", "e", "t", "e", "r", "u", "s", "n", "y", "a">>,
      <<"#", " ", ".", ".", ".", " ", "(", "r", "e", "s", "t", " ", "o", "m", "i", "t", "t", "e", "d", ")">>,
      <<"/", "/", " ", ".", ".", ".", " ", "(", "r", "e", "s", "t", " ", "o", "m", "i", "t", "t", "e", "d", ")">>>>

\* the endings step 5 looks for
ABRUPT_ENDINGS == <<<<".", ".", ".">>,
                    <<"#", " ", ".", ".", ".">>,
                    <<"/", "/", " ", ".", ".", ".">>>>

\* r'(def\s+\w+\([^)]*\):)\s*\.\.\.' matches in s at position i
\* (s is lowered: the pattern is compiled with IGNORECASE)
DefPatternAt(s, i) ==
    LET n == Len(s)
        any == {s[k] : k \in 1..n}
        a == i + 3
        b == SkipClass(s, a, Whitespace)
        c == SkipClass(s, b, WordChars)
        d == SkipClass(s, c + 1, any \ {")"})
        e == SkipClass(s, d + 2, Whitespace)
    IN  /\ MatchAt(s, i, <<"d", "e", "f">>)
        /\ b > a
        /\ c > b
        /\ MatchAt(s, c, <<"(">>)
        /\ MatchAt(s, d, <<")", ":">>)
        /\ MatchAt(s, e, <<".", ".", ".">>)

\* r'(function\s+\w+\([^)]*\))\s*\{?\s*\.\.\.' matches in s at position i
FunctionPatternAt(s, i) ==
    LET n == Len(s)
        any == {s[k] : k \in 1..n}
        a == i + 8
        b == SkipClass(s, a, Whitespace)
        c == SkipClass(s, b, WordChars)
        d == SkipClass(s, c + 1, any \ {")"})
        e == SkipClass(s, d + 1, Whitespace)
        f == IF MatchAt(s, e, <<"{">>) THEN SkipClass(s, e + 1, Whitespace) ELSE e
    IN  /\ MatchAt(s, i, <<"f", "u", "n", "c", "t", "i", "o", "n">>)
        /\ b > a
        /\ c > b
        /\ MatchAt(s, c, <<"(">>)
        /\ MatchAt(s, d, <<")">>)
        /\ MatchAt(s, f, <<".", ".", ".">>)

\* r'(class\s+\w+[^{]*)\{?\s*\.\.\.' matches in s at position i: after the
\* name's first character, some '...' is preceded by characters other than
\* '{', then at most one '{', then white space only
ClassPatternAt(s, i) ==
    LET a == i + 5
        b == SkipClass(s, a, Whitespace)
    IN  /\ MatchAt(s, i, <<"c", "l", "a", "s", "s">>)
        /\ b > a
        /\ b <= Len(s)
        /\ s[b] \in WordChars
        /\ \E q \in (b + 1)..Len(s) :
              /\ MatchAt(s, q, <<".", ".", ".">>)
              /\ LET braces == {k \in (b + 1)..(q - 1) : s[k] = "{"}
                 IN  \/ braces = {}
                     \/ \E k \in braces :
                           /\ braces = {k}
                           /\ \A j \in (k + 1)..(q - 1) : s[j] \in Whitespace

\* INCOMPLETE_PATTERNS: for each pattern, whether re.findall finds a match
IncompletePatternsFound(content) ==
    LET s == lower(content)
    IN  <<\E i \in 1..Len(s) : DefPatternAt(s, i),
          \E i \in 1..Len(s) : FunctionPatternAt(s, i),
          \E i \in 1..Len(s) : ClassPatternAt(s, i)>>

\* _remove_strings_and_comments
remove_strings_and_comments(content) ==
    LET s1 == RemoveDelimited(content, <<"\"", "\"", "\"">>, <<"\"", "\"", "\"">>)
        s2 == RemoveDelimited(s1, <<"'", "'", "'">>, <<"'", "'", "'">>)
        s3 == RemoveDelimited(s2, <<"\"">>, <<"\"">>)
        s4 == RemoveDelimited(s3, <<"'">>, <<"'">>)
        s5 == RemoveToEol(s4, <<"#">>)
        s6 == RemoveToEol(s5, <<"/", "/">>)
    IN  RemoveDelimited(s6, <<"/", "*">>, <<"*", "/">>)

OpenBrackets == {"(", "[", "{"}
CloseBrackets == {")", "]", "}"}
Closer(c) == IF c = "(" THEN ")" ELSE IF c = "[" THEN "]" ELSE "}"

IsBracket(c) == c \in OpenBrackets \cup CloseBrackets

\* the loop of _check_bracket_balance over the brackets of the text, in
\* order (the other characters are passed over), with the stack given:
\* TRUE when it ends with every bracket matched
RECURSIVE BalancedFrom(_, _)
BalancedFrom(brackets, stack) ==
    IF brackets = <<>> THEN stack = <<>>
    ELSE IF Head(brackets) \in OpenBrackets
    THEN BalancedFrom(Tail(brackets), <<Head(brackets)>> \o stack)
    ELSE /\ stack # <<>>
         /\ Closer(Head(stack)) = Head(brackets)
         /\ BalancedFrom(Tail(brackets), Tail(stack))

\* _check_bracket_balance(content)['balanced']
check_bracket_balance(content) ==
    BalancedFrom(SelectSeq(remove_strings_and_comments(content), IsBracket), <<>>)

\* scores are counted in hundredths
FullScore == 100
TooShort == 10
MarkerPenalty == 30
PatternPenalty == 20
BracketPenalty == 10
ShortFilePenalty == 10
AbruptEndPenalty == 30
MinLines == 5
CompleteScore == 70

\* a score left as the penalties made it
unclamped(score) == score

\* score = max(0.0, min(1.0, score))
clamp(score) == IF score < 0 THEN 0 ELSE IF score > FullScore THEN FullScore ELSE score

\* CodeCompletenessValidator.validate_completeness(content, filename)
CodeCompletenessValidator(content, filename) ==
    IF Len(strip(content)) < TooShort
    THEN [is_complete |-> FALSE, score |-> 0, issues |-> 1, warnings |-> 0]
    ELSE
    LET content_lower == lower(content)
        found_markers == {m \in 1..Len(TRUNCATION_MARKERS) :
                             Contains(content_lower, lower(TRUNCATION_MARKERS[m]))}
        patterns == IncompletePatternsFound(content)
        found_patterns == {p \in 1..Len(patterns) : patterns[p]}
        unbalanced == IF check_bracket_balance(content) THEN 0 ELSE 1
        lines == split(content)
        non_empty_lines == {l \in 1..Len(lines) : strip(lines[l]) # <<>>}
        short == IF Cardinality(non_empty_lines) < MinLines
                    /\ ~EndsWith(filename, <<".", "t", "x", "t">>)
                 THEN 1 ELSE 0
        last_lines == strip(join(LastLines(lines, MinLines)))
        abrupt == IF \E e \in 1..Len(ABRUPT_ENDINGS) : EndsWith(last_lines, ABRUPT_ENDINGS[e])
                  THEN 1 ELSE 0
        issues == Cardinality(found_markers) + Cardinality(found_patterns) + abrupt
        warnings == unbalanced + short
        score == clamp(FullScore - MarkerPenalty * Cardinality(found_markers)
                          - PatternPenalty * Cardinality(found_patterns)
                          - BracketPenalty * unbalanced
                          - ShortFilePenalty * short
                          - AbruptEndPenalty * abrupt)
    IN  [is_complete |-> score >= CompleteScore /\ issues = 0,
         score |-> score, issues |-> issues, warnings |-> warnings]

\* ExtraSettings.COMPLETENESS_THRESHOLD, in hundredths
COMPLETENESS_THRESHOLD == 95

\* DraftVersion.validate_completeness: its own markers and minimum length
DraftTruncationMarkers ==
    <<<<".", ".", ".">>,
      <<"#", " ", ".", ".", ".", " ", "r", "e", "s", "t", " ", "o", "f", " ", "c", "o", "d", "e">>,
      <<"/", "/", " ", ".", ".", ".", " ", "r", "e", "s", "t", " ", "o", "f", " ", "c", "o", "d", "e">>,
      <<"/", "*", " ", ".", ".", ".", " ", "*", "/">>,
      <<"#", " ", "k", "o", "d", "e", " ", "l", "a", "i", "n", "n", "y", "a">>,
      <<"/", "/", " ", "k", "o", "d", "e", " ", "l", "a", "i", "n", "n", "y", "a">>,
      <<"[", "t", "r", "u", "n", "c", "a", "t", "e", "d", "]">>,
      <<"[", "c", "o", "n", "t", "i", "n", "u", "e", "d", "]">>>>
DraftMinLength == 50

DraftVersion_validate_completeness(content) ==
    /\ content # <<>>
    /\ \A m \in 1..Len(DraftTruncationMarkers) :
          ~Contains(lower(content), lower(DraftTruncationMarkers[m]))
    /\ Len(content) >= DraftMinLength

\* ------------------------------------------------- reads and deletions
\* get_draft which answers without looking the draft up
get_draft_without_lookup(d) ==
    /\ NoRequestStep
    /\ UNCHANGED <<attachments, nextAttachmentId, drafts, nextDraftId, now>>
    /\ resp' = Response("get", d, 200, "")

\* GET /draft/{draft_id}
get_draft(d) ==
    /\ NoRequestStep
    /\ UNCHANGED <<attachments, nextAttachmentId, drafts, nextDraftId, now>>
    /\ IF d \notin DOMAIN drafts
       THEN resp' = Response("get", d, 404, "Draft not found")
       ELSE resp' = Response("get", d, 200, "")

\* the rows session.delete removes when the attachment file_id is deleted:
\* the row itself and, when it has no parent, the rows whose parent it is
DeletedWith(A, file_id) ==
    {file_id} \cup (IF A[file_id].parent_file_id = None
                    THEN {c \in DOMAIN A : A[c].parent_file_id = file_id}
                    ELSE {})

\* ids a delete request may name: every id ever allocated and one never allocated
AttachmentIds == 1..(MaxAttachments + 1)

\* DELETE /attachment/{file_id}, for a project that exists
delete_attachment(file_id) ==
    /\ NoRequestStep
    /\ UNCHANGED <<nextAttachmentId, drafts, nextDraftId, now>>
    /\ IF file_id \notin DOMAIN attachments
       THEN /\ resp' = Response("delete", None, 404, "Attachment not found")
            /\ UNCHANGED attachments
       ELSE /\ attachments' = [a \in DOMAIN attachments \ DeletedWith(attachments, file_id)
                                  |-> attachments[a]]
            /\ resp' = Response("delete", None, 200, "")

\* ------------------------------------------------------- specifications
Upload ==
    \E conv \in Conversations, fname \in Filenames, content \in UploadContents :
       attach_file(conv, fname, content)

Import ==
    \E conv \in Conversations :
       \E files \in ImportBatches(MaxAttachments + 1 - nextAttachmentId) :
          import_files_from_github(conv, files)

Reviews ==
    \/ \E conv \in Conversations, fname \in Filenames, content \in Contents :
          CreateDraft(conv, fname, content)
    \/ \E d \in DraftIds : approve_draft(d)
    \/ \E d \in DraftIds : reject_draft(d)

Next ==
    /\ UNCHANGED validatorVars
    /\ UNCHANGED serviceVars
    /\ UNCHANGED chatVars
    /\ \/ Upload
       \/ Import
       \/ Reviews
       \/ \E d \in DraftIds : promote_draft(d)
       \/ \E d \in DraftIds : get_draft(d)

Spec == Init /\ [][Next]_vars

\* the operations that write or are said to write Attachment rows, with the
\* reviews of drafts whose content is complete
NextFiles ==
    /\ UNCHANGED validatorVars
    /\ UNCHANGED serviceVars
    /\ UNCHANGED chatVars
    /\ \/ Upload
       \/ Import
       \/ \E file_id \in AttachmentIds : delete_attachment(file_id)
       \/ \E conv \in Conversations, fname \in Filenames, content \in UploadContents :
             CreateDraft(conv, fname, content)
       \/ \E d \in DraftIds : approve_draft(d)
       \/ \E d \in DraftIds : reject_draft(d)
       \/ \E d \in DraftIds : promote_draft(d)

SpecFiles == Init /\ [][NextFiles]_vars

NextC ==
    /\ UNCHANGED validatorVars
    /\ UNCHANGED serviceVars
    /\ UNCHANGED chatVars
    /\ \/ Upload
       \/ \E conv \in Conversations, fname \in Filenames, content \in Contents :
             CreateDraft(conv, fname, content)
       \/ \E r \in Requests, d \in DraftIds : promote_load(r, d)
       \/ \E r \in Requests : promote_call(r)

SpecC == Init /\ [][NextC]_vars

\* ---------------------------------------------------- list_attachments
\* the ids of S, the highest first (order_by created_at / updated_at desc:
\* rows are stamped when they are inserted and no handler updates one)
RECURSIVE Descending(_)
Descending(S) ==
    IF S = {} THEN <<>> ELSE <<Max(S)>> \o Descending(S \ {Max(S)})

\* select(Attachment).where(conversation_id == conv).where(status == status)
RowsWithStatus(A, conv, status) ==
    {a \in DOMAIN A : A[a].conversation_id = conv /\ A[a].status = status}

\* the rows list_attachments returns: the LATEST rows of the conversation,
\* and the ORIGINAL rows if it has no LATEST row
ListedRows(A, conv) ==
    IF RowsWithStatus(A, conv, LATEST) # {}
    THEN Descending(RowsWithStatus(A, conv, LATEST))
    ELSE Descending(RowsWithStatus(A, conv, ORIGINAL))

\* GET /conversation/{conv_id}/attachments for a project and a conversation
\* that exist
list_attachments(conv) ==
    /\ resp' = [op |-> "list", draft |-> conv, code |-> 200, detail |-> "",
                rows |-> ListedRows(attachments, conv)]
    /\ UNCHANGED <<attachments, nextAttachmentId, drafts, nextDraftId, now, req>>

\* the operations that write or are said to write Attachment rows, and the
\* listing of what they leave
NextList ==
    /\ UNCHANGED validatorVars
    /\ UNCHANGED serviceVars
    /\ UNCHANGED chatVars
    /\ \/ Upload
       \/ Import
       \/ \E file_id \in AttachmentIds : delete_attachment(file_id)
       \/ \E conv \in Conversations, fname \in Filenames, content \in UploadContents :
             CreateDraft(conv, fname, content)
       \/ \E d \in DraftIds : promote_draft(d)
       \/ \E conv \in Conversations : list_attachments(conv)

SpecList == Init /\ [][NextList]_vars

\* ----------------------------------------------- inputs of the validator
MaxGoodLines == 6       \* lines of plain code in a generated content
MaxFeatureLines == 2    \* lines with a bracket, a marker or a pattern in it

\* a line of code with nothing for the validator to find
GoodLine == <<"x", " ", "=", " ", "f", "(", "1", ")">>

\* lines with one open bracket, with a bracket inside a string, with a
\* marker in a comment, with a marker in upper case, with the bare marker,
\* and with an incomplete function
FeatureLines ==
    {<<"y", " ", "=", " ", "(">>,
     <<"p", "(", "\"", "(", "\"", ")">>,
     <<"z", " ", "=", " ", "2", " ", " ", "#", " ", ".", ".", ".", " ", "r", "e", "s", "t", " ", "o", "f", " ", "c", "o", "d", "e">>,
     <<"[", "T", "R", "U", "N", "C", "A", "T", "E", "D", "]">>,
     <<".", ".", ".">>,
     <<"d", "e", "f", " ", "g", "(", ")", ":", " ", ".", ".", ".">>}

RECURSIVE SeqsUpTo(_, _)
SeqsUpTo(S, n) ==
    IF n = 0 THEN {<<>>}
    ELSE LET shorter == SeqsUpTo(S, n - 1)
         IN  shorter \cup {Append(q, x) : q \in {r \in shorter : Len(r) = n - 1}, x \in S}

\* before good lines, then feature lines, then after good lines
ValidatorContents ==
    {join([i \in 1..before |-> GoodLine] \o features \o [i \in 1..after |-> GoodLine]) :
        before \in 0..MaxGoodLines, after \in 0..1,
        features \in SeqsUpTo(FeatureLines, MaxFeatureLines)}

ValidatorFilenames == {<<"c", "o", "d", "e", ".", "p", "y">>, <<"n", "o", "t", "e", "s", ".", "t", "x", "t">>}

\* the validator's input is one content and one filename
storeVars == <<attachments, nextAttachmentId, drafts, nextDraftId, now, resp, req>>

InitV ==
    /\ InitStore
    /\ vinput \in [content : ValidatorContents, filename : ValidatorFilenames]
    /\ validation = [done |-> FALSE]
    /\ InitChat
    /\ InitServices

\* both completeness checks of the repository applied to the input
validate ==
    /\ ~validation.done
    /\ validation' =
          [done |-> TRUE,
           result |-> CodeCompletenessValidator(vinput.content, vinput.filename),
           draft_is_complete |-> DraftVersion_validate_completeness(vinput.content),
           balanced |-> check_bracket_balance(vinput.content)]
    /\ UNCHANGED vinput
    /\ UNCHANGED storeVars
    /\ UNCHANGED chatVars
    /\ UNCHANGED serviceVars

NextV == validate

SpecV == InitV /\ [][NextV]_vars

\* ------------------------------------------------------ the chat stream
\* TaskType
CODE_GENERATION == "code_generation"
WEB_SEARCH == "web_search"
ARCHITECTURE == "architecture"
DEBUGGING == "debugging"
DOCUMENTATION == "documentation"
GENERAL == "general"

code_keywords ==
    <<<<"c", "o", "d", "e">>,
      <<"i", "m", "p", "l", "e", "m", "e", "n", "t">>,
      <<"f", "u", "n", "c", "t", "i", "o", "n">>,
      <<"c", "l", "a", "s", "s">>,
      <<"v", "a", "r", "i", "a", "b", "l", "e">>,
      <<"p", "r", "o", "g", "r", "a", "m">>,
      <<"s", "c", "r", "i", "p", "t">>,
      <<"b", "u", "i", "l", "d">>,
      <<"c", "r", "e", "a", "t", "e">>>>
search_keywords ==
    <<<<"s", "e", "a", "r", "c", "h">>,
      <<"f", "i", "n", "d">>,
      <<"l", "o", "o", "k", "u", "p">>,
      <<"w", "h", "a", "t", " ", "i", "s">>,
      <<"w", "h", "o", " ", "i", "s">>,
      <<"w", "h", "e", "n">>,
      <<"w", "h", "e", "r", "e">>,
      <<"h", "o", "w", " ", "t", "o">>,
      <<"t", "u", "t", "o", "r", "i", "a", "l">>>>
arch_keywords ==
    <<<<"a", "r", "c", "h", "i", "t", "e", "c", "t", "u", "r", "e">>,
      <<"d", "e", "s", "i", "g", "n">>,
      <<"s", "t", "r", "u", "c", "t", "u", "r", "e">>,
      <<"f", "r", "a", "m", "e", "w", "o", "r", "k">>,
      <<"p", "a", "t", "t", "e", "r", "n">>,
      <<"s", "c", "a", "l", "a", "b", "i", "l", "i", "t", "y">>,
      <<"m", "i", "c", "r", "o", "s", "e", "r", "v", "i", "c", "e", "s">>>>
debug_keywords ==
    <<<<"e", "r", "r", "o", "r">>,
      <<"b", "u", "g">>,
      <<"f", "i", "x">>,
      <<"d", "e", "b", "u", "g">>,
      <<"c", "r", "a", "s", "h">>,
      <<"e", "x", "c", "e", "p", "t", "i", "o", "n">>,
      <<"p", "r", "o", "b", "l", "e", "m">>,
      <<"n", "o", "t", " ", "w", "o", "r", "k", "i", "n", "g">>>>
doc_keywords ==
    <<<<"d", "o", "c", "u", "m", "e", "n", "t">>,
      <<"d", "o", "c", "u", "m", "e", "n", "t", "a", "t", "i", "o", "n">>,
      <<"e", "x", "p", "l", "a", "i", "n">>,
      <<"t", "u", "t", "o", "r", "i", "a", "l">>,
      <<"g", "u", "i", "d", "e">>,
      <<"m", "a", "n", "u", "a", "l">>,
      <<"h", "o", "w", " ", "d", "o", "e", "s", " ", "i", "t", " ", "w", "o", "r", "k">>>>

\* any(kw in content_lower for kw in keywords)
AnyKeyword(content_lower, keywords) ==
    \E k \in 1..Len(keywords) : Contains(content_lower, keywords[k])

\* TaskRouter._classify_task
classify_task(content) ==
    LET content_lower == lower(content)
    IN  IF AnyKeyword(content_lower, code_keywords) THEN CODE_GENERATION
        ELSE IF AnyKeyword(content_lower, search_keywords) THEN WEB_SEARCH
        ELSE IF AnyKeyword(content_lower, arch_keywords) THEN ARCHITECTURE
        ELSE IF AnyKeyword(content_lower, debug_keywords) THEN DEBUGGING
        ELSE IF AnyKeyword(content_lower, doc_keywords) THEN DOCUMENTATION
        ELSE GENERAL

\* Task.max_retries and the chunk_size of ai_chain_stream
max_retries == 3
chunk_size == 50

\* the model_hint the handler passes to call_best_available
model_hint(type, unlimited) ==
    IF type = CODE_GENERATION /\ unlimited THEN <<"c", "e", "r", "e", "b", "r", "a", "s">> ELSE <<>>

\* call_best_available: the clients it calls, in order, as long as each
\* returns None
Failover(active, hint) ==
    (IF "cerebras" \in active /\ (Contains(lower(hint), <<"c", "e", "r", "e", "b", "r", "a", "s">>) \/ hint = <<>>)
     THEN <<"cerebras">> ELSE <<>>)
    \o (IF "nvidia" \in active THEN <<"nvidia">> ELSE <<>>)
    \o (IF "cerebras" \in active THEN <<"cerebras">> ELSE <<>>)

\* f"data: {chunk}\n\n"
SSE(chunk) == <<"d", "a", "t", "a", ":", " ">> \o chunk \o <<"\n", "\n">>

\* json.dumps of a status object, as one unit of text
JsonDone == <<"{\"status\": \"done\"}">>
JsonRecovered == <<"{\"status\": \"done_recovered\"}">>
JsonError == <<"{\"status\": \"error\"}">>

simple_response == <<"I", "'", "m", " ", "e", "x", "p", "e", "r", "i", "e", "n", "c", "i", "n", "g", " ", "h", "i", "g", "h", " ", "d", "e", "m", "a", "n", "d", " ", "r", "i", "g", "h", "t", " ", "n", "o", "w", ".", " ", "L", "e", "t", " ", "m", "e", " ", "t", "r", "y", " ", "t", "o", " ", "h", "e", "l", "p", " ", "y", "o", "u", " ", "w", "i", "t", "h", " ", "a", " ", "s", "i", "m", "p", "l", "e", "r", " ", "r", "e", "s", "p", "o", "n", "s", "e", ".">>

\* content[i:i + chunk_size] for i in range(0, len(content), chunk_size)
Slices(content) ==
    [k \in 1..((Len(content) + chunk_size - 1) \div chunk_size) |->
        SubSeq(content, (k - 1) * chunk_size + 1,
               IF k * chunk_size < Len(content) THEN k * chunk_size ELSE Len(content))]

NonBlank(chunk) == strip(chunk) # <<>>

\* a stream that reports "done" before its text as well as after it
StreamOf_done_first(content) ==
    <<SSE(JsonDone)>>
    \o [k \in 1..Len(SelectSeq(Slices(content), NonBlank)) |->
           SSE(SelectSeq(Slices(content), NonBlank)[k])]
    \o <<SSE(JsonDone)>>

\* what ai_chain_stream yields for a response: the chunks that are not blank
\* and the final status
StreamOf(content) ==
    [k \in 1..Len(SelectSeq(Slices(content), NonBlank)) |->
        SSE(SelectSeq(Slices(content), NonBlank)[k])] \o <<SSE(JsonDone)>>

\* what ai_chain_stream yields when process_task raised the exception
\* whose text is message
StreamOfFailure(message) ==
    IF Contains(lower(message), <<"r", "a", "t", "e", " ", "l", "i", "m", "i", "t">>) \/ Contains(lower(message), <<"q", "u", "o", "t", "a">>)
    THEN <<SSE(simple_response), SSE(JsonRecovered)>>
    ELSE <<SSE(JsonError)>>

\* the texts of the exceptions the handlers raise
AICallFailed == <<"A", "I", " ", "c", "a", "l", "l", " ", "f", "a", "i", "l", "e", "d">>
RetryAICallFailed == <<"R", "e", "t", "r", "y", " ", "A", "I", " ", "c", "a", "l", "l", " ", "f", "a", "i", "l", "e", "d">>

\* stream_chat_response: every item ai_chain_stream yields is a str; those that
\* are not blank are collected in ai_response_parts and sent on
Relayed(items) == SelectSeq(items, NonBlank)

\* ''.join(ai_response_parts)
RECURSIVE Concat(_)
Concat(parts) == IF parts = <<>> THEN <<>> ELSE Head(parts) \o Concat(Tail(parts))

\* what the generation services answer
CompleteCode == join([i \in 1..6 |-> GoodLine])
TruncatedCode == join([i \in 1..5 |-> GoodLine] \o <<<<".", ".", ".">>>>)
GeneratedContents == {CompleteCode, TruncatedCode}
FinishReasons == {"stop", "length"}
Messages == {<<"w", "r", "i", "t", "e", " ", "c", "o", "d", "e">>, <<"h", "e", "l", "l", "o">>}
ClientSets == {{"cerebras"}, {"nvidia"}, {"cerebras", "nvidia"}}

\* what websocket_chat sends for the items of ai_chain_stream: every item as
\* it is, then its own completion signal
WebSocketSent(items) == items \o <<JsonDone>>

\* the request answered: ai_chain_stream has yielded items.  Over SSE
\* (stream_chat_response) the items that are not blank are sent on, each
\* wrapped again, and saved; over the WebSocket every item is sent and saved.
\* The first send to a WebSocket whose client is gone raises, and nothing is
\* sent or saved.
Finished(c, items) ==
    IF c.transport = "sse"
    THEN [c EXCEPT !.pc = "done",
                   !.stream = items,
                   !.delivered = [k \in 1..Len(Relayed(items)) |-> SSE(Relayed(items)[k])],
                   !.ai_response = IF Relayed(items) # <<>> THEN Concat(Relayed(items)) ELSE @]
    ELSE IF c.connected
    THEN [c EXCEPT !.pc = "done",
                   !.stream = items,
                   !.delivered = WebSocketSent(items),
                   !.ai_response = IF items # <<>> THEN Concat(items) ELSE @]
    ELSE [c EXCEPT !.pc = "done",
                   !.stream = SubSeq(items, 1, 1)]

\* the count of a failure with no look at max_retries
CountRetry_unguarded(c) ==
    [c EXCEPT !.retry_count = @ + 1]

\* process_task's handler of an exception
CountRetry(c) ==
    [c EXCEPT !.retry_count = IF @ < max_retries THEN @ + 1 ELSE @]

\* POST /chat/{conv_id}: the Chat row is saved with an empty ai_response and
\* the stream starts; the task is classified and its handler opens the first
\* generation call.  Messages are those the code or general handler answers.
chat_request(message, unlimited) ==
    /\ chat.pc = "idle"
    /\ classify_task(message) \in {CODE_GENERATION, GENERAL}
    /\ chat' = [pc |-> "call", type |-> classify_task(message), unlimited |-> unlimited,
                attempt |-> 1,
                clients |-> Failover(active_clients,
                                     model_hint(classify_task(message), unlimited)),
                produced |-> FALSE, outcomes |-> <<>>, retry_count |-> 0,
                aborted |-> FALSE, delivered |-> <<>>, ai_response |-> <<>>,
                transport |-> "sse", connected |-> TRUE, stream |-> <<>>]
    /\ UNCHANGED active_clients
    /\ UNCHANGED storeVars
    /\ UNCHANGED validatorVars
    /\ UNCHANGED serviceVars

\* the generation service produces output for the call in progress
\* (chat.completions.create with stream=False has not returned)
service_produce ==
    /\ chat.pc = "call"
    /\ ~chat.produced
    /\ chat' = [chat EXCEPT !.produced = TRUE]
    /\ UNCHANGED active_clients
    /\ UNCHANGED storeVars
    /\ UNCHANGED validatorVars
    /\ UNCHANGED serviceVars

\* the client call in progress returns a response; the handler goes on to
\* the retry call or to its return, and the response is streamed
client_returns(content, finish_reason) ==
    /\ chat.pc = "call"
    /\ LET checked == chat.type = CODE_GENERATION /\ chat.attempt = 1
           verdict ==
              IF ~checked THEN "unchecked"
              ELSE IF CodeCompletenessValidator(content,
                          <<"c", "o", "d", "e", ".", "p", "y">>).is_complete
              THEN "complete" ELSE "incomplete"
           returned == [chat EXCEPT !.outcomes =
                           Append(@, [ok |-> TRUE, finish_reason |-> finish_reason,
                                      verdict |-> verdict])]
       IN  IF verdict = "incomplete" /\ chat.retry_count < max_retries
           THEN chat' = [returned EXCEPT
                            !.retry_count = @ + 1,
                            !.attempt = 2,
                            !.clients = Failover(active_clients,
                                                 model_hint(chat.type, chat.unlimited)),
                            !.produced = FALSE]
           ELSE chat' = Finished(returned, StreamOf(content))
    /\ UNCHANGED active_clients
    /\ UNCHANGED storeVars
    /\ UNCHANGED validatorVars
    /\ UNCHANGED serviceVars

\* the client call in progress fails (call_cerebras / call_nvidia return
\* None): call_best_available goes to its next client, or returns None and
\* the handler raises
client_fails ==
    /\ chat.pc = "call"
    /\ LET failed == [chat EXCEPT !.outcomes =
                         Append(@, [ok |-> FALSE, finish_reason |-> "",
                                    verdict |-> "unchecked"])]
       IN  IF Len(chat.clients) > 1
           THEN chat' = [failed EXCEPT !.clients = Tail(@), !.produced = FALSE]
           ELSE chat' = Finished(CountRetry([failed EXCEPT !.aborted = TRUE]),
                                 StreamOfFailure(IF chat.attempt = 1 THEN AICallFailed
                                                 ELSE RetryAICallFailed))
    /\ UNCHANGED active_clients
    /\ UNCHANGED storeVars
    /\ UNCHANGED validatorVars
    /\ UNCHANGED serviceVars

InitG ==
    /\ InitStore
    /\ vinput = NoInput
    /\ validation = [done |-> FALSE]
    /\ chat = IdleChat
    /\ active_clients \in ClientSets
    /\ InitServices

NextG ==
    \/ \E message \in Messages, unlimited \in BOOLEAN : chat_request(message, unlimited)
    \/ service_produce
    \/ \E content \in GeneratedContents, finish_reason \in FinishReasons :
          client_returns(content, finish_reason)
    \/ client_fails

SpecG == InitG /\ [][NextG]_vars

\* WebSocket /ws/ai: the Chat row is saved with an empty ai_response and
\* ai_chain_stream is started with its default unlimited = True
websocket_chat(message) ==
    /\ chat.pc = "idle"
    /\ classify_task(message) \in {CODE_GENERATION, GENERAL}
    /\ chat' = [pc |-> "call", type |-> classify_task(message), unlimited |-> TRUE,
                attempt |-> 1,
                clients |-> Failover(active_clients,
                                     model_hint(classify_task(message), TRUE)),
                produced |-> FALSE, outcomes |-> <<>>, retry_count |-> 0,
                aborted |-> FALSE, delivered |-> <<>>, ai_response |-> <<>>,
                transport |-> "ws", connected |-> TRUE, stream |-> <<>>]
    /\ UNCHANGED active_clients
    /\ UNCHANGED storeVars
    /\ UNCHANGED validatorVars
    /\ UNCHANGED serviceVars

\* the caller goes away while the generation call is in progress.  The
\* StreamingResponse of an SSE request is cancelled with its generator, at the
\* await of the call; websocket_chat awaits nothing of the socket before its
\* first send and goes on.
caller_disconnects ==
    /\ chat.pc = "call"
    /\ chat.connected
    /\ chat' = IF chat.transport = "sse"
               THEN [chat EXCEPT !.connected = FALSE, !.pc = "cancelled"]
               ELSE [chat EXCEPT !.connected = FALSE]
    /\ UNCHANGED active_clients
    /\ UNCHANGED storeVars
    /\ UNCHANGED validatorVars
    /\ UNCHANGED serviceVars

NextChat ==
    \/ NextG
    \/ \E message \in Messages : websocket_chat(message)
    \/ caller_disconnects

SpecChat == InitG /\ [][NextChat]_vars

\* ------------------------------------------------------ the TaskManager
MaxJobs == 3       \* calls of schedule_task

PROCESSING == "processing"
COMPLETED == "completed"
FAILED == "failed"
RETRYING == "retrying"

\* Task.content of the tasks
TaskContent(t) ==
    IF t = "t1" THEN <<"w", "r", "i", "t", "e", " ", "c", "o", "d", "e">>
    ELSE <<"h", "e", "l", "l", "o">>

\* process_task's handler of an exception, on the Task
Failed(task) ==
    [CountRetry(task) EXCEPT
        !.status = IF task.retry_count < max_retries THEN RETRYING ELSE FAILED]

\* validation['is_complete'] of CodeGenerationHandler.process, for each
\* content a generation service answers
CodeVerdict ==
    [content \in GeneratedContents |->
        CodeCompletenessValidator(content,
            <<"c", "o", "d", "e", ".", "p", "y">>).is_complete]

JobIds == DOMAIN jobs

\* the job j at its next position
Moved(j, pc, attempt) == [jobs EXCEPT ![j].pc = pc, ![j].attempt = attempt]

\* TaskManager.schedule_task: the task is put into active_tasks under its id and
\* its background processing is created
schedule_task(t) ==
    /\ Len(jobs) < MaxJobs
    /\ active_tasks' = active_tasks \cup {t}
    /\ jobs' = Append(jobs, [task_id |-> t, pc |-> "created", attempt |-> 0])
    /\ UNCHANGED <<tasks, completed_tasks, failed_tasks>>

\* _process_task_async runs up to its first await: it returns if the id is not
\* in active_tasks; else process_task classifies a general task, marks it
\* PROCESSING and the handler opens its generation call
job_starts(j) ==
    /\ jobs[j].pc = "created"
    /\ IF jobs[j].task_id \notin active_tasks
       THEN /\ jobs' = Moved(j, "done", 0)
            /\ UNCHANGED tasks
       ELSE /\ jobs' = Moved(j, "call", 1)
            /\ tasks' = [tasks EXCEPT
                  ![jobs[j].task_id].type =
                       IF @ = GENERAL THEN classify_task(TaskContent(jobs[j].task_id))
                       ELSE @,
                  ![jobs[j].task_id].status = PROCESSING]
    /\ UNCHANGED <<active_tasks, completed_tasks, failed_tasks>>

\* the generation call of job j returns content.  An incomplete first output
\* of a code task is retried by the handler; else process_task marks the task
\* COMPLETED and _process_task_async moves it to completed_tasks.  If the id
\* is no more in active_tasks, del raises KeyError after the entry was
\* written, the handler of the exception writes failed_tasks and its own del
\* raises again.
job_call_returns(j, content) ==
    /\ jobs[j].pc = "call"
    /\ LET t == jobs[j].task_id
           incomplete ==
              /\ tasks[t].type = CODE_GENERATION
              /\ jobs[j].attempt = 1
              /\ ~CodeVerdict[content]
       IN  IF incomplete /\ tasks[t].retry_count < max_retries
           THEN /\ tasks' = [tasks EXCEPT ![t].retry_count = @ + 1,
                                          ![t].status = RETRYING]
                /\ jobs' = Moved(j, "call", 2)
                /\ UNCHANGED <<active_tasks, completed_tasks, failed_tasks>>
           ELSE /\ tasks' = [tasks EXCEPT ![t].status = COMPLETED]
                /\ jobs' = Moved(j, "done", jobs[j].attempt)
                /\ completed_tasks' = completed_tasks \cup {t}
                /\ failed_tasks' = IF t \in active_tasks THEN failed_tasks
                                   ELSE failed_tasks \cup {t}
                /\ active_tasks' = active_tasks \ {t}

\* the generation call of job j fails with every client: the handler raises,
\* process_task counts, and _process_task_async moves the task to failed_tasks
job_call_fails(j) ==
    /\ jobs[j].pc = "call"
    /\ LET t == jobs[j].task_id
       IN  /\ tasks' = [tasks EXCEPT ![t] = Failed(@)]
           /\ jobs' = Moved(j, "done", jobs[j].attempt)
           /\ failed_tasks' = failed_tasks \cup {t}
           /\ active_tasks' = active_tasks \ {t}
           /\ UNCHANGED completed_tasks

\* the steps of the background processings
JobSteps ==
    \/ \E j \in JobIds : job_starts(j)
    \/ \E j \in JobIds, content \in GeneratedContents : job_call_returns(j, content)
    \/ \E j \in JobIds : job_call_fails(j)

NextM ==
    /\ UNCHANGED storeVars
    /\ UNCHANGED validatorVars
    /\ UNCHANGED chatVars
    /\ UNCHANGED searchVars
    /\ UNCHANGED replyVars
    /\ \/ \E t \in TaskIds : schedule_task(t)
       \/ JobSteps

SpecM == Init /\ [][NextM]_vars

\* a background processing that can take a step takes it; nothing makes a
\* caller schedule a task
SpecMLive == SpecM /\ WF_vars(JobSteps /\ NextM)

\* ------------------------------------------------------ DeepWebSearch
MaxSearchTime == 40      \* minutes the clock runs

\* DeepWebSearch.cache_ttl, in minutes
cache_ttl == 30

Queries == {<<"T", "l", "a">>, <<"t", "l", "a", " ">>, <<"t", "l", "c">>}
Depths == {1, 2}

\* f"{search_type}:{query.lower().strip()}"
get_cache_key(query, search_type) == search_type \o <<":">> \o strip(lower(query))

\* datetime.utcnow() - timestamp < self.cache_ttl
is_cache_valid(timestamp) == utcnow - timestamp < cache_ttl

\* what the search strategies find for a query: results that were scraped
\* and enhanced if depth > 1
FinalResults(query, depth) == [query |-> query, enhanced |-> depth > 1]

\* DeepWebSearch.deep_search
deep_search(query, depth) ==
    LET cache_key == get_cache_key(query, <<"d", "e", "e", "p", "_", "s", "e", "a", "r", "c", "h">>)
    IN  /\ IF /\ cache_key \in DOMAIN search_cache
              /\ is_cache_valid(search_cache[cache_key].timestamp)
           THEN /\ search_result' =
                      [called |-> TRUE, query |-> query, depth |-> depth,
                       from_cache |-> TRUE,
                       timestamp |-> search_cache[cache_key].timestamp,
                       results |-> search_cache[cache_key].results]
                /\ UNCHANGED search_cache
           ELSE /\ search_cache' =
                      Insert(search_cache, cache_key,
                             [results |-> FinalResults(query, depth),
                              timestamp |-> utcnow])
                /\ search_result' =
                      [called |-> TRUE, query |-> query, depth |-> depth,
                       from_cache |-> FALSE, timestamp |-> utcnow,
                       results |-> FinalResults(query, depth)]
        /\ UNCHANGED utcnow

\* ten minutes pass
minutes_pass ==
    /\ utcnow + 10 <= MaxSearchTime
    /\ utcnow' = utcnow + 10
    /\ UNCHANGED <<search_cache, search_result>>

NextS ==
    /\ UNCHANGED storeVars
    /\ UNCHANGED validatorVars
    /\ UNCHANGED chatVars
    /\ UNCHANGED managerVars
    /\ UNCHANGED replyVars
    /\ \/ \E query \in Queries, depth \in Depths : deep_search(query, depth)
       \/ minutes_pass

SpecS == Init /\ [][NextS]_vars

\* ------------------------------------------------- the Telegram replies
TELEGRAM_CHAR_LIMIT == 4096

MaxRun == 4097      \* letters in a row in a reply

\* n letters
Run(n) == [i \in 1..n |-> "a"]

\* str.rfind of one character, as a Python index
rfind(s, c) == Max({i \in 1..Len(s) : s[i] = c}) - 1

\* str.lstrip()
lstrip(s) ==
    LET kept == {i \in 1..Len(s) : s[i] \notin Whitespace}
    IN  IF kept = {} THEN <<>> ELSE SubSeq(s, First(kept), Len(s))

\* the loop of split_text
RECURSIVE split_loop(_, _)
split_loop(text, chunks) ==
    IF Len(text) = 0 THEN chunks
    ELSE IF Len(text) <= TELEGRAM_CHAR_LIMIT THEN Append(chunks, text)
    ELSE LET chunk == SubSeq(text, 1, TELEGRAM_CHAR_LIMIT)
             found == IF \E i \in 1..Len(chunk) : chunk[i] = "\n"
                      THEN rfind(chunk, "\n") ELSE rfind(chunk, " ")
             split_pos == IF found = -1 THEN TELEGRAM_CHAR_LIMIT ELSE found
         IN  split_loop(lstrip(SubSeq(text, split_pos + 1, Len(text))),
                        Append(chunks, SubSeq(text, 1, split_pos)))

\* split_text
split_text(text) ==
    IF Len(text) <= TELEGRAM_CHAR_LIMIT THEN <<text>> ELSE split_loop(text, <<>>)

\* the AI replies: letters, with a newline or a space before them and in
\* their middle
ReplyLeads == {<<>>, <<"\n">>, <<" ">>, <<" ", "\n">>}
ReplyJoints == {<<>>, <<"\n">>, <<" ">>}
RunLengths == {1, TELEGRAM_CHAR_LIMIT - 1, TELEGRAM_CHAR_LIMIT, MaxRun}
Replies ==
    {lead \o Run(n) \o joint \o Run(m) :
        lead \in ReplyLeads, n \in RunLengths, joint \in ReplyJoints, m \in RunLengths}

InitT ==
    /\ InitStore
    /\ vinput = NoInput
    /\ validation = [done |-> FALSE]
    /\ InitChat
    /\ InitManager
    /\ InitSearch
    /\ reply \in [text : Replies, sent : {FALSE}, chunks : {<<>>}]

\* process_and_reply: the reply is split and its chunks are sent
process_and_reply ==
    /\ ~reply.sent
    /\ reply' = [reply EXCEPT !.sent = TRUE, !.chunks = split_text(reply.text)]
    /\ UNCHANGED storeVars
    /\ UNCHANGED validatorVars
    /\ UNCHANGED chatVars
    /\ UNCHANGED managerVars
    /\ UNCHANGED searchVars

NextT == process_and_reply

SpecT == InitT /\ [][NextT]_vars

\* ================================================================ claims
\* d is a draft that promote accepts: approved and complete
Promotable(d) ==
    /\ d \in DOMAIN drafts
    /\ drafts[d].status = APPROVED
    /\ drafts[d].is_complete

ChainOfDraft(A, d) == Chain(A, drafts[d].conversation_id, drafts[d].filename)

\* C1: a promote request for a draft that is not APPROVED or not complete is
\* answered with the 400 precondition error and writes nothing: the attachment
\* table and the draft table are the same after it as before.
C1_PromoteRejectsIneligible ==
    [][\A d \in DOMAIN drafts :
          (promote_draft(d) /\ ~Promotable(d))
          => /\ resp'.code = 400
             /\ attachments' = attachments
             /\ drafts' = drafts]_vars

\* a promote of a PENDING draft was answered 400 (Scenario C)
C1_Witness ==
    /\ resp.op = "promote"
    /\ resp.code = 400
    /\ resp.draft \in DOMAIN drafts
    /\ drafts[resp.draft].status = PENDING

\* C2: with the requests served one at a time, every version chain
\* (conversation_id, filename) has at most one row with status LATEST.
C2_OneLatestPerChain ==
    \A conv \in Conversations, fname \in Filenames :
       Cardinality(LatestOf(attachments, conv, fname)) <= 1

\* a chain holds two rows and a promote for it has been served
C2_Witness ==
    /\ resp.op = "promote"
    /\ resp.draft \in DOMAIN drafts
    /\ Cardinality(ChainOfDraft(attachments, resp.draft)) >= 2

C4_PromoteApprovedSucceeds ==
    [][\A d \in DOMAIN drafts :
          (promote_draft(d) /\ Promotable(d))
          => /\ resp'.code = 200
             /\ \E a \in DOMAIN attachments' \ DOMAIN attachments :
                   /\ ChainOfDraft(attachments', d) = ChainOfDraft(attachments, d) \cup {a}
                   /\ attachments'[a].status = LATEST]_vars

\* C5: a promote of an approved, complete draft succeeds and leaves every row
\* that was LATEST in the draft's chain with status MODIFIED.
C5_PromoteRetiresOldLatest ==
    [][\A d \in DOMAIN drafts :
          (promote_draft(d) /\ Promotable(d))
          => /\ resp'.code = 200
             /\ \A a \in ChainOfDraft(attachments, d) :
                   attachments[a].status = LATEST
                   => (a \in DOMAIN attachments' /\ attachments'[a].status = MODIFIED)]_vars

\* C6: after the promote of an approved, complete draft the draft row still
\* exists, with status PROMOTED and promoted_at set.
C6_PromoteMarksDraftPromoted ==
    [][\A d \in DOMAIN drafts :
          (promote_draft(d) /\ Promotable(d))
          => /\ d \in DOMAIN drafts'
             /\ drafts'[d].status = PROMOTED
             /\ drafts'[d].promoted_at # None]_vars

\* C7: within a chain the versions strictly increase in creation order (the
\* order of the ids).
C7_VersionsIncreaseInChain ==
    \A a \in DOMAIN attachments, b \in DOMAIN attachments :
       (/\ attachments[a].conversation_id = attachments[b].conversation_id
        /\ attachments[a].filename = attachments[b].filename
        /\ a < b) => attachments[a].version < attachments[b].version

\* C8: a promote that fails after its precondition checks passed (answer 500)
\* leaves the committed state as it was: no new row, no row changed, the draft
\* unchanged.
C8_PromoteAllOrNothing ==
    [][\A d \in DOMAIN drafts :
          (promote_draft(d) /\ resp'.code = 500)
          => /\ attachments' = attachments
             /\ nextAttachmentId' = nextAttachmentId
             /\ drafts' = drafts]_vars

\* a promote of an approved draft failed with 500, on a chain that holds a row
C8_Witness ==
    /\ resp.op = "promote"
    /\ resp.code = 500
    /\ Promotable(resp.draft)
    /\ ChainOfDraft(attachments, resp.draft) # {}

\* C9: the promote of an approved, complete draft adds a row whose content is
\* the draft's content.
C9_PromoteCopiesContent ==
    [][\A d \in DOMAIN drafts :
          (promote_draft(d) /\ Promotable(d))
          => \E a \in DOMAIN attachments' \ DOMAIN attachments :
                attachments'[a].content = drafts[d].content]_vars

\* C10: an approve request for a draft whose status is APPROVED, REJECTED or
\* PROMOTED is rejected and leaves the draft's status and reviewed_at as they were.
C10_ApproveOnlyFromPending ==
    [][\A d \in DOMAIN drafts :
          (approve_draft(d) /\ drafts[d].status \in {APPROVED, REJECTED, PROMOTED})
          => /\ resp'.code # 200
             /\ drafts'[d].status = drafts[d].status
             /\ drafts'[d].reviewed_at = drafts[d].reviewed_at]_vars

\* C11: once a draft's status is PROMOTED or REJECTED, no request changes its
\* status, its content or its promoted_at, and the row stays.
C11_TerminalStatusFrozen ==
    [][\A d \in DOMAIN drafts :
          drafts[d].status \in {PROMOTED, REJECTED}
          => /\ d \in DOMAIN drafts'
             /\ drafts'[d].status = drafts[d].status
             /\ drafts'[d].content = drafts[d].content
             /\ drafts'[d].promoted_at = drafts[d].promoted_at]_vars

\* C12: a reject or promote request for a draft whose status is PROMOTED or
\* REJECTED is answered with an error and writes nothing.
C12_TerminalRejectPromoteFail ==
    [][\A d \in DOMAIN drafts :
          ((reject_draft(d) \/ promote_draft(d))
              /\ drafts[d].status \in {PROMOTED, REJECTED})
          => /\ resp'.code # 200
             /\ drafts' = drafts
             /\ attachments' = attachments]_vars

\* C13: an approve request for a draft whose is_complete is false is answered
\* 400 'Cannot approve incomplete draft' and changes nothing: the draft's status
\* and reviewed_at, and the whole draft table, are as before.
C13_ApproveIncompleteRejected ==
    [][\A d \in DOMAIN drafts :
          (approve_draft(d) /\ ~drafts[d].is_complete)
          => /\ resp'.code = 400
             /\ resp'.detail = "Cannot approve incomplete draft"
             /\ drafts'[d].status = drafts[d].status
             /\ drafts'[d].reviewed_at = drafts[d].reviewed_at
             /\ drafts' = drafts
             /\ attachments' = attachments]_vars

\* an approve of an incomplete draft was answered 400 and the draft is PENDING
C13_Witness ==
    /\ resp.op = "approve"
    /\ resp.code = 400
    /\ resp.draft \in DOMAIN drafts
    /\ ~drafts[resp.draft].is_complete
    /\ drafts[resp.draft].status = PENDING
    /\ drafts[resp.draft].reviewed_at = None

\* C14: get, approve, reject and promote requests that name a draft id with no
\* row are answered 404 and leave every Draft and Attachment row unchanged.
C14_MissingDraftNotFound ==
    [][\A d \in DraftIds \ DOMAIN drafts :
          (get_draft(d) \/ approve_draft(d) \/ reject_draft(d) \/ promote_draft(d))
          => /\ resp'.code = 404
             /\ resp'.detail = "Draft not found"
             /\ drafts' = drafts
             /\ attachments' = attachments]_vars

\* a request for a draft id with no row was answered 404 while both tables
\* hold rows
C14_Witness ==
    /\ resp.op \in {"get", "approve", "reject", "promote"}
    /\ resp.code = 404
    /\ resp.draft \notin DOMAIN drafts
    /\ DOMAIN drafts # {}
    /\ DOMAIN attachments # {}

\* the rows with status LATEST
LatestRows(A) == {a \in DOMAIN A : A[a].status = LATEST}

C16_AttachmentsNeverDeleted ==
    [][\A a \in DOMAIN attachments : a \in DOMAIN attachments']_vars

\* C17: a row with status ORIGINAL keeps its content, version and status (and
\* every other column) through every step in which it stays in the table.
C17_OriginalRowsImmutable ==
    [][\A a \in DOMAIN attachments \cap DOMAIN attachments' :
          attachments[a].status = ORIGINAL
          => attachments'[a] = attachments[a]]_vars

\* a promote of an approved draft was served on a chain that holds an
\* ORIGINAL row made by an upload or import
C17_Witness ==
    /\ resp.op = "promote"
    /\ Promotable(resp.draft)
    /\ \E a \in ChainOfDraft(attachments, resp.draft) :
          /\ attachments[a].status = ORIGINAL
          /\ attachments[a].version = 1

\* C18: every Attachment row's content_hash is the digest of its content.
C18_AttachmentHashMatches ==
    \A a \in DOMAIN attachments :
       attachments[a].content_hash = sha256(attachments[a].content)

\* the anchor of a chain: the row created first
Anchor(A, d) ==
    CHOOSE m \in ChainOfDraft(A, d) : \A x \in ChainOfDraft(A, d) : m <= x

\* C19: the promote of an approved, complete draft on a chain that holds rows
\* adds a row whose parent_file_id is the id of the chain's first row.
C19_PromoteLinksToAnchor ==
    [][\A d \in DOMAIN drafts :
          (promote_draft(d) /\ Promotable(d) /\ ChainOfDraft(attachments, d) # {})
          => \E a \in DOMAIN attachments' \ DOMAIN attachments :
                attachments'[a].parent_file_id = Anchor(attachments, d)]_vars

\* C20: every Draft row has content_length = length(content) and
\* content_hash = digest(content).
C20_DraftLengthAndHash ==
    \A d \in DOMAIN drafts :
       /\ drafts[d].content_length = Len(drafts[d].content)
       /\ drafts[d].content_hash = sha256(drafts[d].content)

\* a draft with two units of content went through a review
C20_Witness ==
    \E d \in DOMAIN drafts :
       /\ Len(drafts[d].content) = 2
       /\ drafts[d].status = REJECTED
       /\ drafts[d].reviewed_at # None

C22_DotsNeverComplete ==
    validation.done /\ Contains(vinput.content, <<".", ".", ".">>)
    => ~validation.result.is_complete

\* a content of more than five lines with balanced brackets, whose one flaw
\* is a "..." in its middle, was validated
C22_Witness ==
    /\ validation.done
    /\ Contains(vinput.content, <<".", ".", ".">>)
    /\ validation.balanced
    /\ validation.result.issues = 1
    /\ validation.result.warnings = 0

\* C23: is_complete is true only for a score of at least the threshold 0.95.
C23_CompleteOnlyAboveThreshold ==
    validation.done /\ validation.result.is_complete
    => validation.result.score >= COMPLETENESS_THRESHOLD

\* C24: a content whose brackets are unbalanced is never found complete.
C24_UnbalancedNeverComplete ==
    validation.done /\ ~validation.balanced => ~validation.result.is_complete

\* C25: the score lies between 0 and 1 (0 and 100 hundredths) for every input.
C25_ScoreInUnitInterval ==
    validation.done
    => validation.result.score >= 0 /\ validation.result.score <= FullScore

\* a content long enough to be scored on which four or more issues were found,
\* penalties of more than the full score, was validated
C25_Witness ==
    /\ validation.done
    /\ Len(strip(vinput.content)) >= TooShort
    /\ validation.result.issues * MarkerPenalty > FullScore
    /\ validation.result.score = 0

\* C26: CodeCompletenessValidator.validate_completeness and
\* DraftVersion.validate_completeness give the same verdict on every content.
C26_ValidatorsAgree ==
    validation.done => validation.result.is_complete = validation.draft_is_complete

\* the notice of an exhausted assembly, as a chunk would carry it
OutputLimitNotice ==
    <<"o", "u", "t", "p", "u", "t", " ", "l", "i", "m", "i", "t", " ",
      "r", "e", "a", "c", "h", "e", "d">>

\* C27: when every generation call of a request returned with the stop reason
\* "length", the finished request has made exactly 3 calls and has sent the
\* caller exactly one "output limit reached" notice.
C27_ThreeSegmentsThenNotice ==
    (/\ chat.pc = "done"
     /\ chat.outcomes # <<>>
     /\ \A k \in DOMAIN chat.outcomes :
           chat.outcomes[k].ok /\ chat.outcomes[k].finish_reason = "length")
    => /\ Len(chat.outcomes) = 3
       /\ Cardinality({k \in DOMAIN chat.delivered :
                          Contains(lower(chat.delivered[k]), OutputLimitNotice)}) = 1

\* C28: once a generation call of a request has failed, the finished request
\* has sent the caller no "done" status and has saved nothing as the chat's
\* ai_response.
C28_FailureAbortsAndSavesNothing ==
    (/\ chat.pc = "done"
     /\ \E k \in DOMAIN chat.outcomes : ~chat.outcomes[k].ok)
    => /\ chat.ai_response = <<>>
       /\ \A k \in DOMAIN chat.delivered : ~Contains(chat.delivered[k], JsonDone)

\* C29: a generation call is in progress only if no earlier call of the same
\* request failed and no earlier output failed validation.
C29_NoCallAfterFailure ==
    chat.pc = "call"
    => \A k \in DOMAIN chat.outcomes :
          chat.outcomes[k].ok /\ chat.outcomes[k].verdict # "incomplete"

\* C30: while a generation call is in progress and the service has produced
\* output for it, the caller has already received a chunk.
C30_ForwardedWhileInProgress ==
    chat.pc = "call" /\ chat.produced => chat.delivered # <<>>

\* C31: once the caller has gone away, no step of the request issues a
\* generation call (a retry or a call to the next client), and nothing is
\* saved as the chat's ai_response.
C31_NoCallAfterDisconnect ==
    [][chat.pc # "idle" /\ ~chat.connected
       => /\ (chat'.pc = "call"
                 => chat'.attempt = chat.attempt /\ chat'.clients = chat.clients)
          /\ chat'.ai_response = <<>>]_vars

\* C32: the result of list_attachments holds exactly one row of every
\* filename chain of the conversation that has an Attachment.
C32_ListOneRowPerChain ==
    [][\A conv \in Conversations :
          list_attachments(conv)
          => \A fname \in Filenames :
                Chain(attachments, conv, fname) # {}
                => Cardinality({k \in DOMAIN resp'.rows :
                                   resp'.rows[k] \in Chain(attachments, conv, fname)}) = 1]_vars

\* C33: a task in status RETRYING is eventually processed again.
C33_RetryingIsProcessedAgain ==
    \A t \in TaskIds :
       (tasks[t].status = RETRYING) ~> (tasks[t].status = PROCESSING)

\* C34: the retry_count of a Task never exceeds max_retries.
C34_RetryCountBounded ==
    \A t \in TaskIds : tasks[t].retry_count <= max_retries

\* a task that had used up its retries failed once more
C34_Witness ==
    \E t \in TaskIds :
       /\ tasks[t].retry_count = max_retries
       /\ tasks[t].status = FAILED
       /\ t \in failed_tasks

\* C35: a task id is in at most one of active_tasks, completed_tasks and
\* failed_tasks.
C35_TaskInOneTable ==
    \A t \in TaskIds :
       /\ ~(t \in active_tasks /\ t \in completed_tasks)
       /\ ~(t \in active_tasks /\ t \in failed_tasks)
       /\ ~(t \in completed_tasks /\ t \in failed_tasks)

\* the status events of ai_chain_stream, as it yields them
StatusEvents == {SSE(JsonDone), SSE(JsonRecovered), SSE(JsonError)}

\* C36: a run of ai_chain_stream that was consumed to its end has yielded a
\* status event as its last item and no status event before it.
C36_OneTerminalStatusLast ==
    chat.pc = "done" /\ (chat.transport = "sse" \/ chat.connected)
    => /\ chat.stream # <<>>
       /\ chat.stream[Len(chat.stream)] \in StatusEvents
       /\ \A k \in 1..(Len(chat.stream) - 1) : chat.stream[k] \notin StatusEvents

\* a run that yielded text chunks and then its status was consumed to the end
C36_Witness ==
    /\ chat.pc = "done"
    /\ chat.connected
    /\ Len(chat.stream) > 1
    /\ chat.stream[Len(chat.stream)] = SSE(JsonDone)

\* C37: the ai_response saved for a chat holds no status event of the stream.
C37_SavedResponseIsTextOnly ==
    chat.pc = "done"
    => \A k \in DOMAIN chat.ai_response :
          chat.ai_response[k] \notin {JsonDone[1], JsonRecovered[1], JsonError[1]}

\* C38: a result served from the cache was stored for the same normalised
\* query and the same depth (with the enhancement that depth asks for), no
\* more than cache_ttl before.
C38_CacheServesSameSearch ==
    search_result.called /\ search_result.from_cache
    => /\ strip(lower(search_result.results.query)) = strip(lower(search_result.query))
       /\ search_result.results.enhanced = (search_result.depth > 1)
       /\ utcnow - search_result.timestamp <= cache_ttl

\* C39: every chunk split_text returns is non-empty and at most
\* TELEGRAM_CHAR_LIMIT characters long.
C39_ChunksNonEmptyWithinLimit ==
    reply.sent
    => \A k \in DOMAIN reply.chunks :
          /\ Len(reply.chunks[k]) > 0
          /\ Len(reply.chunks[k]) <= TELEGRAM_CHAR_LIMIT

====
